---- MODULE Spec2Model ----
(***************************************************************************)
(* Model of mc.LoadBalancer (src/mc/balancer.py): construction, the health *)
(* probe and get_client(), called by several threads under one mutex.      *)
(* Time is a discrete clock; external calls (Minio(...), list_buckets(),   *)
(* the HTTP GET) are outcomes drawn from small sets.                       *)
(***************************************************************************)
EXTENDS Integers, Sequences, FiniteSets, TLC

\* ---------------------------------------------------------------- bounds
MaxN == 3            \* largest endpoint list
NumThreads == 2      \* caller threads
MaxTime == 2         \* the clock runs 0..MaxTime
MaxCalls == 3        \* get_client() calls per behaviour
unhealthy_retry_timedelta == 1   \* the retry window, in clock units

\* ---------------------------------------------------------------- values
NoClient == 0        \* None in self.clients
NoTime == -1         \* None in self.failures
NoIndex == -1        \* None as the returned index

Threads == 1..NumThreads

\* outcomes of the external calls
ConstructOutcomes == {"ok", "Exception"}
ProtoOutcomes == {"ok", "S3Error", "Exception"}
HttpOutcomes == {"status200", "statusOther", "MaxRetryError",
                 "NewConnectionError", "Exception"}
\* the probe without a client: whether Minio(...) of line 74 raises, and what
\* the GET of line 85 to the endpoint gives
TransportOutcomes == [ctor : ConstructOutcomes, http : HttpOutcomes]

VARIABLES
    phase,          \* "ctor", "ready", "ValueError", "Exception"; "probe"
                    \* when _is_server_healthy is followed on its own
    endpoints,      \* len(self.endpoints)
    ctor_i,         \* the index of the loop of __init__
    clients,        \* self.clients: handle per endpoint, NoClient for None
    failures,       \* self.failures: timestamp per endpoint, NoTime for None
    current_index,  \* self.current_index
    mutex,          \* self.mutex: the holding thread, 0 when free
    now,            \* datetime.datetime.now(utc)
    nextHandle,     \* identity of the next Minio object stored
    frame,          \* per thread: position and locals of get_client()
    logging,        \* whether the probe logs (the two variables below and
                    \* the fields due and refused of a call) are kept
    last_retry,     \* per endpoint: the time of its latest transport probe
    last_failed,    \* per endpoint: the time of its latest failed probe
    hist,           \* the finished calls, in the order they returned
    probe           \* one call of _is_server_healthy: arguments and result

vars == <<phase, endpoints, ctor_i, clients, failures, current_index, mutex,
          now, nextHandle, frame, logging, last_retry, last_failed, hist, probe>>

Indices == 0..(endpoints - 1)

IdleFrame ==
    [pc |-> "idle", current_actual_idx |-> NoIndex,
     start_idx_loop_detection |-> NoIndex, iter |-> 0,
     client_to_check |-> NoClient, conn |-> {}, deadline |-> NoTime,
     probes |-> 0, ok |-> TRUE, seen |-> {}, due |-> {}, refused |-> {}]

\* ------------------------------------------------------ pure helpers
SetMin(S) == CHOOSE x \in S : \A y \in S : x <= y

\* variant: only S3Error is caught around list_buckets()
IsServerHealthyLeaky(client, o) ==
    IF client = NoClient
    THEN IF o.ctor # "ok" THEN "False"
         ELSE IF o.http = "status200" THEN "True"
         ELSE "False"
    ELSE IF o = "ok" THEN "True"
         ELSE IF o = "S3Error" THEN "False"
         ELSE "raise"

\* variant: any answer to the GET counts as healthy
IsServerHealthyAnyStatus(client, o) ==
    IF client = NoClient
    THEN IF o.ctor # "ok" THEN "False"
         ELSE IF o.http \in {"status200", "statusOther"} THEN "True"
         ELSE "False"
    ELSE IF o = "ok" THEN "True"
         ELSE "False"

\* _is_server_healthy: "True", "False"; "raise" would be an escaping error
IsServerHealthy(client, o) ==
    IF client = NoClient
    THEN IF o.ctor # "ok" THEN "False"
         ELSE IF o.http = "status200" THEN "True"
         ELSE "False"
    ELSE IF o = "ok" THEN "True"
         ELSE "False"

\* variants of the window test: one unit early, strict, and no test at all
IsPastBackoffEarly(f, t) ==
    f # NoTime /\ t - f >= unhealthy_retry_timedelta - 1

IsPastBackoffStrict(f, t) ==
    f # NoTime /\ t - f > unhealthy_retry_timedelta

IsPastBackoffAlways(f, t) ==
    f # NoTime

\* variant: the window is twice as long
IsPastBackoffDouble(f, t) ==
    f # NoTime /\ t - f >= 2 * unhealthy_retry_timedelta

\* lines 142-144: a failure is recorded and the window has elapsed
IsPastBackoff(f, t) ==
    f # NoTime /\ t - f >= unhealthy_retry_timedelta

\* variant: the failure time of a client that fails is not recorded
MarkFailureNever(f, t) == f

\* lines 134-135: the failure time is set only when none is recorded
MarkFailure(f, t) == IF f = NoTime THEN t ELSE f

\* variant: the index is advanced without the modulo
NextIndexNoMod(c, n) == c + 1

\* variants of the advance: none, and by two
NextIndexStuck(c, n) == c % n

NextIndexTwo(c, n) == (c + 2) % n

\* line 125
NextIndex(c, n) == (c + 1) % n

\* variant: all(self.clients)
AllClients(cl) == \A i \in DOMAIN cl : cl[i] # NoClient

\* line 62: any(self.clients)
AnyClients(cl) == \E i \in DOMAIN cl : cl[i] # NoClient

\* variant: the loop-detection test without the comparison of the index
LoopDetectedNoStart(cur, start, fl, t) ==
    \A i \in DOMAIN fl :
        fl[i] # NoTime /\ t - fl[i] < unhealthy_retry_timedelta

\* variant: stop as soon as some endpoint is inside its window
LoopDetectedAny(cur, start, fl, t) ==
    \E i \in DOMAIN fl :
        fl[i] # NoTime /\ t - fl[i] < unhealthy_retry_timedelta

\* line 169: the loop-detection test
LoopDetected(cur, start, fl, t) ==
    /\ cur = start
    /\ \A i \in DOMAIN fl :
          fl[i] # NoTime /\ t - fl[i] < unhealthy_retry_timedelta

\* variant: the failure time survives the recovery
MarkHealthyStale(fl, i) == fl

\* lines 130, 156: self.failures[i] = None
MarkHealthy(fl, i) == [fl EXCEPT ![i] = NoTime]

\* variants: the first failure time is kept; the window is extended instead
ResetFailureKeep(fl, i, t) == fl

ResetFailureExtend(fl, i, t) ==
    [fl EXCEPT ![i] = @ + unhealthy_retry_timedelta]

\* variant: the failed retry is dated one window back
ResetFailureBackdated(fl, i, t) ==
    [fl EXCEPT ![i] = t - unhealthy_retry_timedelta]

\* lines 161, 164: self.failures[i] = now, after a failed retry
ResetFailure(fl, i, t) == [fl EXCEPT ![i] = t]

\* variant: the unhealthy client stays in its slot
DropClientKeep(cl, i) == cl

\* line 137: self.clients[i] = None
DropClient(cl, i) == [cl EXCEPT ![i] = NoClient]

\* variant: one iteration more than there are endpoints
MoreIterationsOneExtra(it, n) == it < n + 1

\* line 119: for _ in range(num_clients)
MoreIterations(it, n) == it < n

\* no call of _is_server_healthy is followed on its own
NoProbe == [client |-> NoClient, proto |-> "ok",
            transport |-> [ctor |-> "ok", http |-> "status200"],
            result |-> "none"]

\* ------------------------------------------------------------- Init
Init ==
    /\ endpoints \in 0..MaxN
    /\ phase = "ctor"
    /\ ctor_i = 0
    /\ clients = [i \in 0..(endpoints - 1) |-> NoClient]
    /\ failures = [i \in 0..(endpoints - 1) |-> NoTime]
    /\ current_index = 0
    /\ mutex = 0
    /\ now = 0
    /\ nextHandle = 1
    /\ frame = [th \in Threads |-> IdleFrame]
    /\ logging = FALSE
    /\ last_retry = [i \in 0..(endpoints - 1) |-> NoTime]
    /\ last_failed = [i \in 0..(endpoints - 1) |-> NoTime]
    /\ hist = <<>>
    /\ probe = NoProbe

\* ------------------------------------------------------ construction
\* lines 21-22
CtorEmpty ==
    /\ phase = "ctor"
    /\ endpoints = 0
    /\ phase' = "ValueError"
    /\ UNCHANGED <<logging, last_retry, last_failed, probe>>
    /\ UNCHANGED <<endpoints, ctor_i, clients, failures, current_index,
                   mutex, now, nextHandle, frame, hist>>

\* lines 42-59: one endpoint of the loop of __init__
CtorEndpoint ==
    /\ phase = "ctor"
    /\ endpoints > 0
    /\ ctor_i < endpoints
    /\ \E oc \in ConstructOutcomes, op \in ProtoOutcomes :
          /\ IF oc = "ok" /\ IsServerHealthy(nextHandle, op) = "True"
             THEN /\ clients' = [clients EXCEPT ![ctor_i] = nextHandle]
                  /\ nextHandle' = nextHandle + 1
                  /\ UNCHANGED failures
             ELSE /\ failures' = [failures EXCEPT ![ctor_i] = now]
                  /\ UNCHANGED <<clients, nextHandle>>
          /\ last_failed' =
                IF logging /\ oc = "ok"
                   /\ IsServerHealthy(nextHandle, op) = "False"
                THEN [last_failed EXCEPT ![ctor_i] = now]
                ELSE last_failed
    /\ ctor_i' = ctor_i + 1
    /\ UNCHANGED <<logging, last_retry, probe>>
    /\ UNCHANGED <<phase, endpoints, current_index, mutex, now, frame, hist>>

\* lines 62-63
CtorFinish ==
    /\ phase = "ctor"
    /\ endpoints > 0
    /\ ctor_i = endpoints
    /\ phase' = IF AnyClients(clients) THEN "ready" ELSE "Exception"
    /\ UNCHANGED <<logging, last_retry, last_failed, probe>>
    /\ UNCHANGED <<endpoints, ctor_i, clients, failures, current_index,
                   mutex, now, nextHandle, frame, hist>>

\* ------------------------------------------------------------ clock
\* the clock is counted from the end of construction
Tick ==
    /\ phase = "ready"
    /\ now < MaxTime
    /\ now' = now + 1
    /\ UNCHANGED <<logging, last_retry, last_failed, probe>>
    /\ UNCHANGED <<phase, endpoints, ctor_i, clients, failures,
                   current_index, mutex, nextHandle, frame, hist>>

\* ------------------------------------------------------- get_client
\* a thread calls get_client() and waits for the mutex
Call(th) ==
    /\ phase = "ready"
    /\ frame[th].pc = "idle"
    /\ Len(hist) + Cardinality({u \in Threads : frame[u].pc # "idle"}) < MaxCalls
    /\ frame' = [frame EXCEPT ![th] = [IdleFrame EXCEPT !.pc = "waiting"]]
    /\ UNCHANGED <<logging, last_retry, last_failed, probe>>
    /\ UNCHANGED <<phase, endpoints, ctor_i, clients, failures,
                   current_index, mutex, now, nextHandle, hist>>

\* the record of a finished call
CallRecord(fr, r, c, raised) ==
    [c |-> fr.start_idx_loop_detection, r |-> r, client |-> c,
     raised |-> raised, conn |-> fr.conn, ok |-> fr.ok,
     backoff |-> (fr.deadline # NoTime /\ now < fr.deadline),
     examined |-> fr.iter, probes |-> fr.probes, seen |-> fr.seen,
     due |-> fr.due, refused |-> fr.refused]

\* return r, c (or an escaping error): leaves the with block
Return(th, fr, r, c, raised) ==
    /\ frame' = [frame EXCEPT ![th] = IdleFrame]
    /\ hist' = Append(hist, CallRecord(fr, r, c, raised))
    /\ mutex' = 0

\* the end of one iteration of the for loop: the next one, or lines 174-175
NextIteration(th, fr) ==
    IF ~MoreIterations(fr.iter, endpoints)
    THEN Return(th, fr, NoIndex, NoClient, FALSE)
    ELSE /\ frame' = [frame EXCEPT ![th] = [fr EXCEPT !.pc = "loop"]]
         /\ UNCHANGED <<hist, mutex>>

\* lines 166-170: the endpoint was not usable
Unusable(th, fr, cur, fl) ==
    IF LoopDetected(cur, fr.start_idx_loop_detection, fl, now)
    THEN Return(th, fr, NoIndex, NoClient, FALSE)
    ELSE NextIteration(th, fr)

\* variant: get_client() without the with block
AcquireNoLock(th) ==
    /\ frame[th].pc = "waiting"
    /\ IF endpoints = 0
       THEN Return(th, frame[th], NoIndex, NoClient, FALSE)
       ELSE /\ mutex' = th
            /\ frame' = [frame EXCEPT ![th] =
                 [IdleFrame EXCEPT
                    !.pc = "loop",
                    !.start_idx_loop_detection = current_index,
                    !.conn = {i \in Indices : clients[i] # NoClient},
                    !.due = {i \in Indices :
                               /\ logging
                               /\ clients[i] = NoClient
                               /\ failures[i] # NoTime
                               /\ now - failures[i]
                                     >= unhealthy_retry_timedelta},
                    !.deadline =
                        IF \A i \in Indices :
                              clients[i] = NoClient /\ failures[i] # NoTime
                        THEN SetMin({failures[i] : i \in Indices})
                               + unhealthy_retry_timedelta
                        ELSE NoTime]]
            /\ UNCHANGED hist
    /\ UNCHANGED <<logging, last_retry, last_failed, probe>>
    /\ UNCHANGED <<phase, endpoints, ctor_i, clients, failures,
                   current_index, now, nextHandle>>

\* lines 112-117: the mutex is taken, the start index remembered
Acquire(th) ==
    /\ frame[th].pc = "waiting"
    /\ mutex = 0
    /\ IF endpoints = 0
       THEN Return(th, frame[th], NoIndex, NoClient, FALSE)
       ELSE /\ mutex' = th
            /\ frame' = [frame EXCEPT ![th] =
                 [IdleFrame EXCEPT
                    !.pc = "loop",
                    !.start_idx_loop_detection = current_index,
                    !.conn = {i \in Indices : clients[i] # NoClient},
                    !.due = {i \in Indices :
                               /\ logging
                               /\ clients[i] = NoClient
                               /\ failures[i] # NoTime
                               /\ now - failures[i]
                                     >= unhealthy_retry_timedelta},
                    !.deadline =
                        IF \A i \in Indices :
                              clients[i] = NoClient /\ failures[i] # NoTime
                        THEN SetMin({failures[i] : i \in Indices})
                               + unhealthy_retry_timedelta
                        ELSE NoTime]]
            /\ UNCHANGED hist
    /\ UNCHANGED <<logging, last_retry, last_failed, probe>>
    /\ UNCHANGED <<phase, endpoints, ctor_i, clients, failures,
                   current_index, now, nextHandle>>

\* lines 119-128, 142-144, 166-170: one endpoint is examined
Examine(th) ==
    /\ frame[th].pc = "loop"
    /\ LET i == current_index % endpoints
           fr == [frame[th] EXCEPT !.current_actual_idx = i,
                                   !.client_to_check = clients[i],
                                   !.iter = @ + 1,
                                   !.seen = @ \cup {i}]
       IN /\ current_index' = NextIndex(current_index, endpoints)
          /\ IF clients[i] # NoClient
             THEN /\ frame' = [frame EXCEPT ![th] = [fr EXCEPT !.pc = "proto"]]
                  /\ UNCHANGED <<hist, mutex>>
             ELSE IF IsPastBackoff(failures[i], now)
             THEN /\ frame' = [frame EXCEPT ![th] = [fr EXCEPT !.pc = "retry"]]
                  /\ UNCHANGED <<hist, mutex>>
             ELSE Unusable(th, fr, NextIndex(current_index, endpoints),
                           failures)
    /\ UNCHANGED <<logging, last_retry, last_failed, probe>>
    /\ UNCHANGED <<phase, endpoints, ctor_i, clients, failures, now,
                   nextHandle>>

\* lines 129-138: the probe through the existing client
ProbeClient(th) ==
    /\ frame[th].pc = "proto"
    /\ \E o \in ProtoOutcomes :
        LET i == frame[th].current_actual_idx
            c == frame[th].client_to_check
            h == IsServerHealthy(c, o)
            fr == [frame[th] EXCEPT !.probes = @ + 1,
                                    !.ok = @ /\ h = "True"]
        IN /\ last_failed' = IF logging /\ h = "False"
                             THEN [last_failed EXCEPT ![i] = now]
                             ELSE last_failed
           /\ CASE h = "True" ->
                     /\ failures' = MarkHealthy(failures, i)
                     /\ Return(th, fr, i, c, FALSE)
                     /\ UNCHANGED clients
                [] h = "False" ->
                     /\ failures' = [failures EXCEPT
                                       ![i] = MarkFailure(failures[i], now)]
                     /\ clients' = DropClient(clients, i)
                     /\ NextIteration(th, fr)
                [] OTHER ->
                     /\ Return(th, fr, NoIndex, NoClient, TRUE)
                     /\ UNCHANGED <<clients, failures>>
    /\ UNCHANGED <<phase, endpoints, ctor_i, current_index, now, nextHandle,
                   logging, last_retry, probe>>

\* lines 145-147, 162-165: the probe of an endpoint whose window has elapsed
ProbeRetry(th) ==
    /\ frame[th].pc = "retry"
    /\ \E o \in TransportOutcomes :
        LET i == frame[th].current_actual_idx
            h == IsServerHealthy(NoClient, o)
            fr == [frame[th] EXCEPT !.probes = @ + 1, !.ok = FALSE,
                                    !.refused = IF logging /\ h = "False"
                                                THEN @ \cup {i} ELSE @]
        IN /\ last_retry' = IF logging
                            THEN [last_retry EXCEPT ![i] = now]
                            ELSE last_retry
           /\ last_failed' = IF logging /\ h = "False"
                             THEN [last_failed EXCEPT ![i] = now]
                             ELSE last_failed
           /\ CASE h = "True" ->
                     /\ frame' = [frame EXCEPT
                                    ![th] = [fr EXCEPT !.pc = "construct"]]
                     /\ UNCHANGED <<failures, hist, mutex>>
                [] h = "False" ->
                     /\ failures' = ResetFailure(failures, i, now)
                     /\ Unusable(th, fr, current_index, failures')
                [] OTHER ->
                     /\ Return(th, fr, NoIndex, NoClient, TRUE)
                     /\ UNCHANGED failures
    /\ UNCHANGED <<phase, endpoints, ctor_i, clients, current_index, now,
                   nextHandle, logging, probe>>

\* lines 148-161: a new client for the endpoint that answered
Reconnect(th) ==
    /\ frame[th].pc = "construct"
    /\ \E o \in ConstructOutcomes :
        LET i == frame[th].current_actual_idx
            fr == [frame[th] EXCEPT !.refused = IF logging /\ o # "ok"
                                                THEN @ \cup {i} ELSE @]
        IN IF o = "ok"
           THEN /\ clients' = [clients EXCEPT ![i] = nextHandle]
                /\ failures' = MarkHealthy(failures, i)
                /\ nextHandle' = nextHandle + 1
                /\ Return(th, fr, i, nextHandle, FALSE)
           ELSE /\ failures' = ResetFailure(failures, i, now)
                /\ Unusable(th, fr, current_index, failures')
                /\ UNCHANGED <<clients, nextHandle>>
    /\ UNCHANGED <<logging, last_retry, last_failed, probe>>
    /\ UNCHANGED <<phase, endpoints, ctor_i, current_index, now>>

\* ------------------------------------------------------------- Next
Next ==
    \/ CtorEmpty
    \/ CtorEndpoint
    \/ CtorFinish
    \/ Tick
    \/ \E th \in Threads : Call(th)
    \/ \E th \in Threads : Acquire(th)
    \/ \E th \in Threads : Examine(th)
    \/ \E th \in Threads : ProbeClient(th)
    \/ \E th \in Threads : ProbeRetry(th)
    \/ \E th \in Threads : Reconnect(th)

Spec == Init /\ [][Next]_vars

\* --------------------------------------- _is_server_healthy on its own
\* the client passed (None or a Minio object), what list_buckets() would do
\* and what the construction of line 74 and the GET of line 85 would do
InitProbe ==
    /\ probe \in [client : 0..MaxN, proto : ProtoOutcomes,
                  transport : TransportOutcomes, result : {"none"}]
    /\ phase = "probe"
    /\ endpoints = 1
    /\ ctor_i = 0
    /\ clients = [i \in 0..0 |-> probe.client]
    /\ failures = [i \in 0..0 |-> NoTime]
    /\ current_index = 0
    /\ mutex = 0
    /\ now = 0
    /\ nextHandle = 1
    /\ frame = [th \in Threads |-> IdleFrame]
    /\ logging = FALSE
    /\ last_retry = [i \in 0..0 |-> NoTime]
    /\ last_failed = [i \in 0..0 |-> NoTime]
    /\ hist = <<>>

\* lines 66-108: the call returns (or raises)
Probe ==
    /\ phase = "probe"
    /\ probe.result = "none"
    /\ probe' = [probe EXCEPT
                   !.result = IsServerHealthy(probe.client,
                                  IF probe.client = NoClient
                                  THEN probe.transport ELSE probe.proto)]
    /\ UNCHANGED <<phase, endpoints, ctor_i, clients, failures,
                   current_index, mutex, now, nextHandle, frame, logging,
                   last_retry, last_failed, hist>>

SpecProbe == InitProbe /\ [][Probe]_vars

\* a thread inside get_client() goes on: the probes and the constructions
\* end, and the mutex is handed to each thread that keeps waiting for it
Fairness ==
    \A th \in Threads :
        /\ SF_vars(Acquire(th))
        /\ WF_vars(Examine(th))
        /\ WF_vars(ProbeClient(th))
        /\ WF_vars(ProbeRetry(th))
        /\ WF_vars(Reconnect(th))

FairSpec == Spec /\ Fairness

\* the same program with the probe logs kept
InitLog ==
    /\ endpoints \in 0..MaxN
    /\ phase = "ctor"
    /\ ctor_i = 0
    /\ clients = [i \in 0..(endpoints - 1) |-> NoClient]
    /\ failures = [i \in 0..(endpoints - 1) |-> NoTime]
    /\ current_index = 0
    /\ mutex = 0
    /\ now = 0
    /\ nextHandle = 1
    /\ frame = [th \in Threads |-> IdleFrame]
    /\ logging = TRUE
    /\ last_retry = [i \in 0..(endpoints - 1) |-> NoTime]
    /\ last_failed = [i \in 0..(endpoints - 1) |-> NoTime]
    /\ hist = <<>>
    /\ probe = NoProbe

SpecLog == InitLog /\ [][Next]_vars

\* ------------------------------------------------- reading the history
Calls == 1..Len(hist)

\* call k found every endpoint connected and its probe succeeded
AllHealthyCall(k) == hist[k].conn = Indices /\ hist[k].ok

\* the first member of H at or after c, in cyclic order
FirstAtOrAfter(H, c) ==
    CHOOSE h \in H :
        \A g \in H : (h - c + endpoints) % endpoints
                        <= (g - c + endpoints) % endpoints

\* the number of calls that returned index i
Returned(i) == Cardinality({k \in Calls : hist[k].r = i})

InScan(th) == frame[th].pc \in {"loop", "proto", "retry", "construct"}

\* endpoint i has no connection and its failure is younger than the window
InBackoff(i) ==
    /\ clients[i] = NoClient
    /\ failures[i] # NoTime
    /\ now - failures[i] < unhealthy_retry_timedelta

\* ------------------------------------------------------------- claims

\* C1: N consecutive calls, each finding all N endpoints connected and its
\* probe successful, return c, c+1, ..., c+N-1 (mod N), c the cursor at the
\* first of them.
C1_RoundRobin ==
    \A k \in Calls :
        (/\ k + endpoints - 1 <= Len(hist)
         /\ \A j \in 0..(endpoints - 1) : AllHealthyCall(k + j))
        => \A j \in 0..(endpoints - 1) :
              hist[k + j].r = (hist[k].c + j) % endpoints

C1_Witness ==
    /\ endpoints = 2
    /\ Len(hist) = 3
    /\ \A k \in 2..3 : AllHealthyCall(k)
    /\ hist[2].c = 1
    /\ <<hist[2].r, hist[3].r>> = <<1, 0>>

C2_NoProbeInBackoff ==
    \A th \in Threads :
        frame[th].pc \in {"proto", "retry", "construct"}
            => ~InBackoff(frame[th].current_actual_idx)

C2_NoReturnInBackoff ==
    Len(hist') > Len(hist)
        => LET r == hist'[Len(hist')].r
           IN r # NoIndex => ~InBackoff(r)

\* C2: while endpoint i has no connection and its failure time t is less than
\* the retry window old, no thread is probing i (through a client, over HTTP
\* or constructing a client), and no call returns index i.
C2_FailureExclusion ==
    [][C2_NoProbeInBackoff' /\ C2_NoReturnInBackoff]_vars

C2_Witness ==
    /\ endpoints = 3
    /\ InBackoff(1)
    /\ \E k \in Calls :
          /\ hist[k].c = 1
          /\ hist[k].r = 2
          /\ hist[k].examined = 2
          /\ hist[k].probes = 1
          /\ hist[k].conn = {0, 2}

\* C3: when a call examines an endpoint i that has no connection, it goes on
\* to the transport probe of i exactly when a failure time is recorded and
\* now - failures[i] >= the retry window.
C3_BackoffTiming ==
    [][\A th \in Threads :
          LET i == current_index % endpoints IN
          (/\ frame[th].pc = "loop"
           /\ frame'[th] # frame[th]
           /\ clients[i] = NoClient)
          => (frame'[th].pc = "retry"
                <=> (/\ failures[i] # NoTime
                     /\ now - failures[i] >= unhealthy_retry_timedelta))]_vars

C3_Witness ==
    \E th \in Threads :
        /\ frame[th].pc = "retry"
        /\ frame[th].iter = 2
        /\ now - failures[frame[th].current_actual_idx]
              = unhealthy_retry_timedelta

\* C4: the step that stores a new client for a re-probed endpoint i ends the
\* call with (i, that client), the client is a fresh one in slot i, and the
\* failure time of i is cleared.
C4_Recovery ==
    [][\A th \in Threads :
          LET i == frame[th].current_actual_idx IN
          (frame[th].pc = "construct" /\ clients' # clients)
          => /\ clients[i] = NoClient
             /\ clients'[i] # NoClient
             /\ \A j \in Indices : clients[j] # clients'[i]
             /\ \A j \in Indices \ {i} : clients'[j] = clients[j]
             /\ failures'[i] = NoTime
             /\ Len(hist') = Len(hist) + 1
             /\ hist'[Len(hist')].r = i
             /\ hist'[Len(hist')].client = clients'[i]
             /\ ~hist'[Len(hist')].raised
             /\ frame'[th].pc = "idle"
             /\ mutex' = 0]_vars

\* a call recovered endpoint i and a later call returned i with that client
C4_Witness ==
    \E k \in Calls, m \in Calls :
        /\ k < m
        /\ hist[k].r # NoIndex
        /\ hist[k].r \notin hist[k].conn
        /\ hist[m].r = hist[k].r
        /\ hist[m].r \in hist[m].conn
        /\ hist[m].client = hist[k].client
        /\ hist[m].probes = 1

\* C5: a call that finds every endpoint without a connection, and during
\* which every endpoint stays inside its window, returns (None, None), having
\* examined at most N endpoints and run no probe.
C5_Exhaustion ==
    \A k \in Calls :
        hist[k].backoff
        => /\ hist[k].r = NoIndex
           /\ hist[k].client = NoClient
           /\ ~hist[k].raised
           /\ hist[k].examined <= endpoints
           /\ hist[k].probes = 0

C5_Witness ==
    /\ endpoints >= 2
    /\ \E k \in Calls : hist[k].backoff /\ hist[k].examined = endpoints

\* C6: while every call finds all endpoints connected and healthy, every
\* returned index is in [0, N), successive calls (in the order they held the
\* mutex) return successive indices mod N, and after K calls each index has
\* been returned floor(K/N) or ceil(K/N) times.
C6_ConcurrentRoundRobin ==
    (\A k \in Calls : AllHealthyCall(k))
    => /\ \A k \in Calls : hist[k].r \in Indices
       /\ \A k \in Calls : hist[k].r = hist[k].c
       /\ \A k \in Calls :
             k > 1 => hist[k].r = (hist[k - 1].r + 1) % endpoints
       /\ \A i \in Indices :
             /\ Returned(i) >= Len(hist) \div endpoints
             /\ Returned(i) <= (Len(hist) + endpoints - 1) \div endpoints

\* one call returned 0, a second holds the mutex probing endpoint 1 while a
\* third waits for the mutex
C6_Witness ==
    /\ endpoints = 3
    /\ Len(hist) = 1
    /\ AllHealthyCall(1)
    /\ hist[1].r = 0
    /\ \E th \in Threads, u \in Threads :
          /\ frame[th].pc = "proto"
          /\ frame[th].current_actual_idx = 1
          /\ frame[th].conn = Indices
          /\ frame[u].pc = "waiting"

\* C7: every finished call returned (index, client) with a client present or
\* (None, None); no error of a probe or of a construction left get_client().
C7_NeverRaises ==
    \A k \in Calls :
        /\ ~hist[k].raised
        /\ \/ hist[k].r = NoIndex /\ hist[k].client = NoClient
           \/ hist[k].r \in Indices /\ hist[k].client # NoClient

C7_Witness ==
    /\ \E k \in Calls : hist[k].probes >= 2 /\ hist[k].r = NoIndex
    /\ \E k \in Calls : hist[k].probes >= 2 /\ hist[k].r # NoIndex

\* C8: construction ends in the ValueError exactly when the endpoint list is
\* empty, and then before any endpoint is tried; in the Exception only when
\* every endpoint has no client; otherwise the balancer exists, with N >= 1
\* and a client in some slot when construction ends.
C8_ConstructionOutcome ==
    /\ phase = "ValueError" <=> (phase # "ctor" /\ endpoints = 0)
    /\ phase = "ValueError" => ctor_i = 0 /\ nextHandle = 1
    /\ phase = "Exception"
         <=> (/\ phase # "ctor"
              /\ endpoints >= 1
              /\ hist = <<>>
              /\ \A th \in Threads : frame[th].pc = "idle"
              /\ \A i \in Indices : clients[i] = NoClient)
    /\ (phase = "ready" /\ hist = <<>> /\ mutex = 0)
         => /\ endpoints >= 1
            /\ ctor_i = endpoints
            /\ \E i \in Indices : clients[i] # NoClient

C8_Witness ==
    /\ phase = "ready"
    /\ endpoints = 3
    /\ hist = <<>>
    /\ mutex = 0
    /\ clients[0] = NoClient
    /\ failures[0] # NoTime
    /\ clients[2] # NoClient

\* C9: |H| consecutive calls that each find exactly the endpoints of H
\* connected, whose probes succeed and which re-probe no other endpoint,
\* return each member of H once, in cyclic ascending order from the first
\* member of H at or after the cursor.
C9_HealthySubsetRoundRobin ==
    \A k \in Calls :
        LET H == hist[k].conn
            n == Cardinality(H)
        IN (/\ H # {}
            /\ k + n - 1 <= Len(hist)
            /\ \A j \in 0..(n - 1) :
                  hist[k + j].conn = H /\ hist[k + j].ok)
           => /\ hist[k].r = FirstAtOrAfter(H, hist[k].c)
              /\ \A j \in 1..(n - 1) :
                    hist[k + j].r =
                        FirstAtOrAfter(H, (hist[k + j - 1].r + 1) % endpoints)
              /\ {hist[k + j].r : j \in 0..(n - 1)} = H

C9_Witness ==
    /\ endpoints = 3
    /\ \E k \in Calls :
          /\ k + 1 <= Len(hist)
          /\ hist[k].conn = {0, 2}
          /\ hist[k + 1].conn = {0, 2}
          /\ hist[k].ok /\ hist[k + 1].ok
          /\ hist[k].c = 1
          /\ hist[k].r = 2
          /\ hist[k + 1].r = 0

C10_OneInScan ==
    /\ Cardinality({th \in Threads : InScan(th)}) <= 1
    /\ \A th \in Threads : InScan(th) => mutex = th

C10_WritesByHolder ==
    (phase = "ready" /\ <<current_index, clients, failures>>'
                           # <<current_index, clients, failures>>)
    => /\ mutex \in Threads
       /\ InScan(mutex)
       /\ frame'[mutex] # frame[mutex]
       /\ \A u \in Threads \ {mutex} : frame'[u] = frame[u]

\* C10: at most one thread is inside the scan of get_client(), that thread
\* holds the mutex from the read of the cursor to its return, probes
\* included, and only it writes the cursor, the clients and the failures.
C10_MutualExclusion ==
    [][C10_OneInScan' /\ C10_WritesByHolder]_vars

C10_Witness ==
    /\ now >= 1
    /\ \E th \in Threads, u \in Threads :
          /\ frame[th].pc = "retry"
          /\ mutex = th
          /\ frame[u].pc = "waiting"

\* the record of the call that returns in this step
Last == hist'[Len(hist')]

\* thread th returns from get_client() in this step
Returns(th) ==
    /\ frame[th].pc # "idle"
    /\ frame'[th].pc = "idle"
    /\ Len(hist') = Len(hist) + 1

\* C11: after construction, in every state (those inside a scan included),
\* 0 <= current_index < N.
C11_CursorValid ==
    phase = "ready" => current_index \in 0..(endpoints - 1)

\* the cursor has wrapped from 2 to 0 inside a scan
C11_Witness ==
    /\ endpoints = 3
    /\ current_index = 0
    /\ \E th \in Threads :
          /\ frame[th].pc \in {"proto", "retry", "construct"}
          /\ frame[th].current_actual_idx = 2
          /\ frame[th].iter = 2

\* C12 as stated: a recorded failure time of endpoint i is never replaced by
\* another time; it stays until a recovery of i clears it.
C12_FirstFailureKept ==
    [][\A i \in Indices :
          (phase = "ready" /\ failures[i] # NoTime)
          => \/ failures'[i] = failures[i]
             \/ failures'[i] = NoTime /\ clients'[i] # NoClient]_vars

\* C12 as amended: a recorded failure time of endpoint i changes only in a
\* step of the mutex holder on i that is either the recovery of i (cleared,
\* client stored) or a failed retry of i (transport probe or construction),
\* which replaces it by the current time.
C12_FailureTimeChanges ==
    [][\A i \in Indices :
          (phase = "ready" /\ failures[i] # NoTime
             /\ failures'[i] # failures[i])
          => /\ mutex \in Threads
             /\ frame[mutex].current_actual_idx = i
             /\ \/ /\ frame[mutex].pc = "construct"
                   /\ failures'[i] = NoTime
                   /\ clients'[i] # NoClient
                \/ /\ frame[mutex].pc \in {"retry", "construct"}
                   /\ failures'[i] = now
                   /\ clients'[i] = NoClient]_vars

\* endpoint 1, down since construction, was retried without success at a
\* later time by a call that then returned endpoint 0
C12_Witness ==
    /\ endpoints = 2
    /\ clients[1] = NoClient
    /\ failures[1] >= 1
    /\ \E k \in Calls :
          /\ hist[k].c = 1
          /\ hist[k].conn = {0}
          /\ hist[k].r = 0
          /\ hist[k].probes = 2
          /\ ~hist[k].ok

\* C13: a retry of endpoint i that fails (the transport probe fails, or it
\* succeeds and the construction fails) sets failures[i] to the current time,
\* leaves clients[i] None and goes on to the next endpoint, or to the
\* (None, None) return when i was the last of the N.
C13_FailedRetryRestartsClock ==
    [][\A th \in Threads :
          LET i == frame[th].current_actual_idx IN
          (\/ /\ frame[th].pc = "retry"
              /\ frame'[th].pc \notin {"retry", "construct"}
           \/ /\ frame[th].pc = "construct"
              /\ frame'[th].pc # "construct"
              /\ clients' = clients)
          => /\ failures'[i] = now
             /\ clients'[i] = NoClient
             /\ current_index' = current_index
             /\ IF frame[th].iter < endpoints
                THEN /\ frame'[th].pc = "loop"
                     /\ frame'[th].iter = frame[th].iter
                     /\ hist' = hist
                     /\ mutex' = mutex
                ELSE /\ Returns(th)
                     /\ Last.r = NoIndex
                     /\ ~Last.raised]_vars

\* a thread is back at the head of the loop after the retry of an endpoint
\* that had no client at entry failed at a time >= 1
C13_Witness ==
    \E th \in Threads :
        /\ frame[th].pc = "loop"
        /\ frame[th].current_actual_idx \notin frame[th].conn
        /\ frame[th].probes >= 1
        /\ ~frame[th].ok
        /\ now >= 1
        /\ failures[frame[th].current_actual_idx] = now

C15_CursorAdvance ==
    [][phase = "ready" =>
         /\ \A th \in Threads :
               (frame[th].pc = "loop" /\ frame'[th] # frame[th])
               => current_index' = (current_index + 1) % endpoints
         /\ (\A th \in Threads :
                frame[th].pc = "loop" => frame'[th] = frame[th])
               => current_index' = current_index
         /\ \A th \in Threads :
               Returns(th)
               => /\ current_index'
                       = (Last.c + Last.examined) % endpoints
                  /\ Last.r # NoIndex
                       => current_index' = (Last.r + 1) % endpoints
                  /\ (Last.r = NoIndex /\ ~Last.raised)
                       => current_index' = Last.c]_vars

\* a call entered with cursor 1 examined the three endpoints, returned
\* (None, None) and left the cursor at 1
C15_Witness ==
    /\ endpoints = 3
    /\ mutex = 0
    /\ current_index = 1
    /\ Len(hist) >= 1
    /\ hist[Len(hist)].r = NoIndex
    /\ hist[Len(hist)].c = 1
    /\ hist[Len(hist)].examined = 3

\* C18: after construction every endpoint has exactly one of a client and a
\* failure time, in every state (also those inside a scan), so an endpoint
\* with neither is never examined.
C18_ClientXorFailure ==
    phase = "ready"
    => \A i \in Indices : (clients[i] = NoClient) <=> (failures[i] # NoTime)

\* no call holds the mutex, an endpoint was recovered by a finished call and
\* another endpoint is down
C18_Witness ==
    /\ endpoints = 3
    /\ mutex = 0
    /\ \E k \in Calls : hist[k].r # NoIndex /\ hist[k].r \notin hist[k].conn
    /\ \E i \in Indices : clients[i] = NoClient /\ failures[i] # NoTime
    /\ \E i \in Indices : clients[i] # NoClient /\ failures[i] = NoTime
\* C19: a transport probe of endpoint i is run at least the retry window
\* after the previous transport probe of i, and at least the retry window
\* after the latest failed probe of i (through a client or over HTTP).
C19_ProbeSpacing ==
    [][\A th \in Threads :
          LET i == frame[th].current_actual_idx IN
          (frame[th].pc = "retry" /\ frame'[th] # frame[th])
          => /\ logging
             /\ last_retry'[i] = now
             /\ last_retry[i] # NoTime
                  => now - last_retry[i] >= unhealthy_retry_timedelta
             /\ last_failed[i] # NoTime
                  => now - last_failed[i] >= unhealthy_retry_timedelta]_vars

\* endpoint i is in its second transport probe, the first one having failed
C19_Witness ==
    \E th \in Threads :
        LET i == frame[th].current_actual_idx IN
        /\ frame[th].pc = "retry"
        /\ last_retry[i] # NoTime
        /\ last_failed[i] = last_retry[i]
        /\ now - last_retry[i] >= unhealthy_retry_timedelta
\* the calls k, ..., k + N - 1 of the history
Window(k) == k..(k + endpoints - 1)

C16_Bounds ==
    /\ \A th \in Threads :
          InScan(th)
          => /\ frame[th].iter <= endpoints
             /\ Cardinality(frame[th].seen) = frame[th].iter
             /\ frame[th].probes <= frame[th].iter
    /\ \A k \in Calls :
          /\ hist[k].examined <= endpoints
          /\ Cardinality(hist[k].seen) = hist[k].examined
          /\ hist[k].probes <= hist[k].examined
    /\ mutex # 0 => InScan(mutex)

\* C16: a call examines each endpoint at most once and runs at most N
\* probes, and the mutex is held only by a thread inside the scan; with
\* probes that end and a fair mutex, every thread that has called
\* get_client() returns.
C16_BoundedScan ==
    /\ []C16_Bounds
    /\ \A th \in Threads :
          (frame[th].pc # "idle") ~> (frame[th].pc = "idle")

\* a call that examined and probed all three endpoints has returned while
\* another thread waits for the mutex
C16_Witness ==
    /\ endpoints = 3
    /\ \E k \in Calls : hist[k].examined = 3 /\ hist[k].probes = 3
    /\ \E th \in Threads : frame[th].pc = "waiting"
\* the probe followed on its own was one without a client and has returned
TransportProbed == probe.client = NoClient /\ probe.result # "none"

\* C17 as stated: the probe without a client reports healthy exactly when
\* the GET answers 200, whether or not a Minio object can be constructed.
C17_HealthyIffStatus200 ==
    TransportProbed
    => (probe.result = "True" <=> probe.transport.http = "status200")

\* C17 as amended: the probe without a client reports healthy exactly when
\* the Minio object of line 74 is constructed and the GET answers 200; it
\* reports unhealthy, and raises nothing, in every other case.
C17_HealthyIffConstructedAnd200 ==
    TransportProbed
    => /\ probe.result \in {"True", "False"}
       /\ probe.result = "True"
            <=> (/\ probe.transport.ctor = "ok"
                 /\ probe.transport.http = "status200")

\* the endpoint would answer 200, the construction raised, the probe
\* reported unhealthy
C17_Witness ==
    /\ TransportProbed
    /\ probe.transport.ctor = "Exception"
    /\ probe.transport.http = "status200"
    /\ probe.result = "False"
====
